---- MODULE Spec2Model ----
(***************************************************************************)
(* Model of check_pages.py: a scheduled run that polls bulletin-board      *)
(* pages, extracts the posted notices, notifies the new ones and saves the *)
(* seen ids.                                                               *)
(*                                                                         *)
(* Strings that the code inspects character by character (item ids, cell   *)
(* texts) are sequences of characters; a character is a number: 0..9 are   *)
(* the decimal digits, NonDigit is any other character.                    *)
(***************************************************************************)
EXTENDS Integers, Sequences, FiniteSets, TLC

\* ------------------------------------------------------------------ bounds

\* rows (or free links) on one fetched page
MaxRows == 3
\* save_state keeps 3000 ids per target (check_pages.py:77); the model keeps
\* SeenCap of them, a scaled cap that sets of enumerable size can exceed
SeenCap == 3

\* ----------------------------------------------------------------- strings

NonDigit == 10

\* str.isdigit(): non-empty and every character a digit
IsDigit(s) == Len(s) > 0 /\ \A j \in 1..Len(s) : s[j] \in 0..9

RECURSIVE int(_)
\* int(s) of a digit string
int(s) == IF s = <<>> THEN 0 ELSE 10 * int(SubSeq(s, 1, Len(s) - 1)) + s[Len(s)]

RECURSIVE StrLess(_, _)
\* a < b on Python strings: lexicographic by character, a proper prefix first
StrLess(a, b) ==
    IF b = <<>> THEN FALSE
    ELSE IF a = <<>> THEN TRUE
    ELSE IF Head(a) # Head(b) THEN Head(a) < Head(b)
    ELSE StrLess(Tail(a), Tail(b))

RECURSIVE Digits(_)
\* the decimal digits of n > 0
Digits(n) == IF n = 0 THEN <<>> ELSE Append(Digits(n \div 10), n % 10)

\* str(v) of a JSON value: a string is itself, a number is its decimal form
Str(v) == IF v.t = "str" THEN v.s ELSE IF v.n = 0 THEN <<0>> ELSE Digits(v.n)

\* -------------------------------------------------------------- sequences

Take(s, n) == SubSeq(s, 1, IF n < Len(s) THEN n ELSE Len(s))

Range(s) == {s[j] : j \in 1..Len(s)}

\* ------------------------------------------------------------------- pages

(***************************************************************************)
(* A parsed page (the soup) is the sequence of its rows in document order. *)
(* A row has its cells' stripped texts (tds, empty for a link outside any  *)
(* table row) and its links.  A link has its stripped text as a sequence   *)
(* of words and bracketed tags, its href and whether its onclick holds a   *)
(* quoted literal.  An href is absent ("none"), "#", "javascript:void(0)"  *)
(* ("jsvoid"), another javascript: href ("js"), or a link with an endpoint *)
(* ep and one query parameter key=val.                                     *)
(***************************************************************************)
NoHref == [kind |-> "none", ep |-> "", key |-> "", val |-> <<>>]

Hash == [kind |-> "hash", ep |-> "", key |-> "", val |-> <<>>]

JsVoid == [kind |-> "jsvoid", ep |-> "", key |-> "", val |-> <<>>]

Js == [kind |-> "js", ep |-> "", key |-> "", val |-> <<>>]

Link(ep, key, val) == [kind |-> "link", ep |-> ep, key |-> key, val |-> val]

A(text, href, onclick) == [text |-> text, href |-> href, onclick |-> onclick]

Row(tds, anchors) == [tds |-> tds, anchors |-> anchors]

Item(item_id, title, url) == [item_id |-> item_id, title |-> title, url |-> url]

RECURSIVE Flatten(_)
\* soup.find_all("a"): every link of the page in document order
Flatten(soup) ==
    IF soup = <<>> THEN <<>> ELSE Head(soup).anchors \o Flatten(Tail(soup))

RECURSIVE DigitPrefix(_)
\* (\d+) at the start of a value: its longest prefix of digits
DigitPrefix(s) ==
    IF s = <<>> \/ Head(s) \notin 0..9 THEN <<>>
    ELSE <<Head(s)>> \o DigitPrefix(Tail(s))

\* re.search(r'[?&]<param>=(\d+)', href): the id, or <<>> for no match
ReSearch(param, href) ==
    IF href.kind = "link" /\ href.key = param THEN DigitPrefix(href.val) ELSE <<>>

\* "<param>=" in href: true of the parameter and of one whose name ends in it
HasParam(param, href) ==
    href.kind = "link" /\ (href.key = param \/ href.key = "p" \o param)

\* mutant of DictPut: an id already in the dict keeps its first item
DictPut_FirstWins(d, it) ==
    IF \E j \in 1..Len(d) : d[j].item_id = it.item_id THEN d ELSE Append(d, it)

\* items_by_id[it.item_id] = it on a dict kept as its values in insertion
\* order: an existing key keeps its place and takes the new value
DictPut(d, it) ==
    IF \E j \in 1..Len(d) : d[j].item_id = it.item_id
    THEN [j \in 1..Len(d) |-> IF d[j].item_id = it.item_id THEN it ELSE d[j]]
    ELSE Append(d, it)

RECURSIVE InsertDesc(_, _)
InsertDesc(sorted, it) ==
    IF sorted = <<>> THEN <<it>>
    ELSE IF int(Head(sorted).item_id) >= int(it.item_id)
         THEN <<Head(sorted)>> \o InsertDesc(Tail(sorted), it)
         ELSE <<it>> \o sorted

RECURSIVE SortDesc(_)
\* sorted(values, key=lambda it: int(it.item_id), reverse=True): stable
SortDesc(d) ==
    IF d = <<>> THEN <<>>
    ELSE InsertDesc(SortDesc(SubSeq(d, 1, Len(d) - 1)), d[Len(d)])

\* sorted(items_by_id.values(), key=int, reverse=True)[:latest_n]
SortCap(d, latest_n) == Take(SortDesc(d), latest_n)

\* title without the tags a site decorates it with
Clean(text, tags) == SelectSeq(text, LAMBDA w : w \notin tags)

RECURSIVE ScanLinks(_, _, _, _, _)
\* the loop shared by the three site parsers: every a[href] whose href has
\* the endpoint and the parameter, whose id matches and whose title is left
ScanLinks(as, ep, param, tags, d) ==
    IF as = <<>> THEN d
    ELSE LET a == Head(as)
             id == ReSearch(param, a.href)
             title == Clean(a.text, tags)
             keep == /\ a.href.kind # "none"
                     /\ a.href.kind = "link" /\ a.href.ep = ep
                     /\ HasParam(param, a.href)
                     /\ id # <<>>
                     /\ title # <<>>
         IN ScanLinks(Tail(as), ep, param, tags,
                      IF keep THEN DictPut(d, Item(id, title, "href")) ELSE d)

parse_nid_or_kr(soup, latest_n) ==
    SortCap(ScanLinks(Flatten(soup), "recruit_view.aspx", "no",
                      {"[open]", "[closed]"}, <<>>), latest_n)

parse_health_suwon(soup, latest_n) ==
    SortCap(ScanLinks(Flatten(soup), "board_view.asp", "no", {}, <<>>), latest_n)

parse_hs4u(soup, latest_n) ==
    SortCap(ScanLinks(Flatten(soup), "subAct=view", "seq",
                      {"[new]", "[image]", "[download]"}, <<>>), latest_n)

\* pass 1 url: a real href, else the onclick literal, else the list page
Url1(a) ==
    IF a.href.kind = "link" THEN "href"
    ELSE IF a.onclick THEN "onclick"
    ELSE "list"

\* pass 2 url: any href that is not javascript:, else the list page
Url2(a) == IF a.href.kind \in {"link", "hash"} THEN "href" ELSE "list"

RECURSIVE Pass1(_, _)
\* 1) rows whose first cell is a number, with the row's first link
Pass1(soup, d) ==
    IF soup = <<>> THEN d
    ELSE LET tr == Head(soup)
             keep == /\ tr.tds # <<>>
                     /\ IsDigit(tr.tds[1])
                     /\ tr.anchors # <<>>
                     /\ tr.anchors[1].text # <<>>
         IN Pass1(Tail(soup),
                  IF keep
                  THEN DictPut(d, Item(tr.tds[1], tr.anchors[1].text,
                                       Url1(tr.anchors[1])))
                  ELSE d)

RECURSIVE Pass2Row(_, _, _)
Pass2Row(tr, as, d) ==
    IF as = <<>> THEN d
    ELSE LET a == Head(as)
             keep == /\ a.text # <<>>
                     /\ tr.tds # <<>>
                     /\ IsDigit(tr.tds[1])
         IN Pass2Row(tr, Tail(as),
                     IF keep THEN DictPut(d, Item(tr.tds[1], a.text, Url2(a)))
                     ELSE d)

RECURSIVE Pass2(_, _)
\* 2) every link with a text, with the first cell of its enclosing row
Pass2(soup, d) ==
    IF soup = <<>> THEN d
    ELSE Pass2(Tail(soup), Pass2Row(Head(soup), Head(soup).anchors, d))

\* "<site>" in target_url, on a url kept as its host
In(site, target_url) == target_url = site

\* the parse of a fetched page; the fetch itself is the caller's step
parse_html_list_number_id(target_url, latest_n, soup) ==
    IF In("nid.or.kr", target_url) THEN parse_nid_or_kr(soup, latest_n)
    ELSE IF In("health.suwon.go.kr", target_url) THEN parse_health_suwon(soup, latest_n)
    ELSE IF In("hs4u.or.kr", target_url) THEN parse_hs4u(soup, latest_n)
    ELSE LET d1 == Pass1(soup, <<>>)
             d2 == IF d1 = <<>> THEN Pass2(soup, <<>>) ELSE d1
         IN SortCap(d2, latest_n)

\* ------------------------------------------------------------ state store

\* a JSON string and a JSON number of a stored id list
JStr(s) == [t |-> "str", s |-> s, n |-> 0]

JNum(n) == [t |-> "num", s |-> <<>>, n |-> n]

Absent == [kind |-> "absent", data |-> <<>>]

Malformed == [kind |-> "malformed", data |-> <<>>]

Snapshot(data) == [kind |-> "ok", data |-> data]

\* load_state(): no file or a file json cannot load is the empty mapping
load_state(f) ==
    IF f.kind = "ok"
    THEN [key \in DOMAIN f.data |-> {Str(v) : v \in Range(f.data[key])}]
    ELSE <<>>

RECURSIVE SortedStrDesc(_)
\* sorted(v, reverse=True) of a set of strings: by string comparison
SortedStrDesc(v) ==
    IF v = {} THEN <<>>
    ELSE LET top == CHOOSE x \in v : \A y \in v : ~StrLess(x, y)
         IN <<top>> \o SortedStrDesc(v \ {top})

\* one stored list: list(sorted(v, reverse=True))[:3000]
Compact(v) == Take(SortedStrDesc(v), SeenCap)

\* save_state(state): the file it writes
save_state(st) ==
    Snapshot([key \in DOMAIN st |-> [j \in 1..Len(Compact(st[key])) |->
                                        JStr(Compact(st[key])[j])]])

\* state.get(name, set())
Get(st, name) == IF name \in DOMAIN st THEN st[name] ELSE {}

\* mutant of Put: the assignment replaces the mapping by the one entry
Put_Alone(st, name, v) == [key \in {name} |-> v]

\* state[name] = v
Put(st, name, v) ==
    [key \in DOMAIN st \cup {name} |-> IF key = name THEN v ELSE st[key]]

\* ------------------------------------------------------------- reconciler

\* [it for it in items if it.item_id not in seen]
NewItems(its, sn) == SelectSeq(its, LAMBDA it : it.item_id \notin sn)

RECURSIVE InsertAsc(_, _)
InsertAsc(sorted, it) ==
    IF sorted = <<>> THEN <<it>>
    ELSE IF int(Head(sorted).item_id) <= int(it.item_id)
         THEN <<Head(sorted)>> \o InsertAsc(Tail(sorted), it)
         ELSE <<it>> \o sorted

RECURSIVE SortAsc(_)
\* new_items.sort(key=lambda it: int(it.item_id)): stable
SortAsc(its) ==
    IF its = <<>> THEN <<>>
    ELSE InsertAsc(SortAsc(SubSeq(its, 1, Len(its) - 1)), its[Len(its)])

\* ----------------------------------------------------------------- inputs

\* the cap a target may configure: latest_n in 1..MaxLatestN
MaxLatestN == 3

Generic == "example.org"

Urls == {Generic, "nid.or.kr", "health.suwon.go.kr", "hs4u.or.kr"}

\* the detail-view endpoint, id parameter and one decorative tag of a site
Endpoint(url) ==
    CASE url = "nid.or.kr" -> "recruit_view.aspx"
      [] url = "health.suwon.go.kr" -> "board_view.asp"
      [] url = "hs4u.or.kr" -> "subAct=view"
      [] OTHER -> "view.php"

Param(url) == IF url = "hs4u.or.kr" THEN "seq" ELSE "no"

Tag(url) ==
    CASE url = "nid.or.kr" -> "[closed]"
      [] url = "hs4u.or.kr" -> "[new]"
      [] OTHER -> "[notice]"

\* the rows a page of a generic board is made of
GenericRows ==
    LET view == Link("view.php", "id", <<1, 0>>)
    IN { Row(<< <<1, 0>> >>, << A(<<"A">>, view, FALSE) >>),
         Row(<< <<9>> >>, << A(<<"B">>, Hash, TRUE) >>),
         Row(<< <<9>> >>, << A(<<"A">>, JsVoid, FALSE) >>),
         Row(<< <<0, 9>> >>, << A(<<"A">>, view, FALSE) >>),
         Row(<< <<1, 1>> >>, << A(<<"B">>, NoHref, TRUE) >>),
         Row(<< <<NonDigit>> >>, << A(<<"A">>, view, FALSE) >>),
         Row(<< <<2>> >>, << A(<<>>, view, FALSE), A(<<"B">>, Js, FALSE) >>),
         Row(<<>>, << A(<<"A">>, view, FALSE) >>) }

\* the links a page of a site with its own parser is made of
SiteRows(url) ==
    LET ep == Endpoint(url)
        pm == Param(url)
    IN { Row(<<>>, << A(<<Tag(url), "A">>, Link(ep, pm, <<1, 0>>), FALSE) >>),
         Row(<<>>, << A(<<"B">>, Link(ep, pm, <<9>>), FALSE) >>),
         Row(<<>>, << A(<<"A">>, Link(ep, pm, <<9>>), FALSE) >>),
         Row(<<>>, << A(<<"A">>, Link(ep, pm, <<0, 9>>), FALSE) >>),
         Row(<<>>, << A(<<"B">>, Link(ep, pm, <<1, 1, NonDigit>>), FALSE) >>),
         Row(<<>>, << A(<<Tag(url)>>, Link(ep, pm, <<2>>), FALSE) >>),
         Row(<<>>, << A(<<"A">>, Link(ep, "p" \o pm, <<2>>), FALSE) >>),
         Row(<<>>, << A(<<"A">>, Link("list.asp", pm, <<2>>), FALSE) >>),
         Row(<< <<2>> >>, << A(<<"B">>, Hash, FALSE) >>) }

RowPool(url) == IF url = Generic THEN GenericRows ELSE SiteRows(url)

\* the pages fetch_html may return for a url
Pages(url) == UNION {[1..len -> RowPool(url)] : len \in 0..MaxRows}

\* every extraction result of a url under a cap
Extractions ==
    [url \in Urls, latest_n \in 1..MaxLatestN |->
        {parse_html_list_number_id(url, latest_n, soup) : soup \in Pages(url)}]

Supported == "html_list_number_id"

Target(name, url, type, latest_n) ==
    [name |-> name, url |-> url, type |-> type, latest_n |-> latest_n]

tA == Target("A", Generic, Supported, 2)

tB == Target("B", "nid.or.kr", Supported, 1)

tC == Target("C", "health.suwon.go.kr", Supported, 2)

tD == Target("D", "hs4u.or.kr", Supported, 3)

tU == Target("U", Generic, "rss", 2)

Names == {"A", "B", "C", "D", "U"}

\* the target lists of targets.json
Configs ==
    { <<>>, <<tA>>, <<tC>>, <<tD>>, <<tA, tB>>, <<tB, tA>>, <<tU, tA>>,
      <<tA, tU>> }

\* the state.json a run may find
Files ==
    { Absent, Malformed,
      Snapshot([key \in {"A", "C"} |->
                  IF key = "A" THEN <<JStr(<<9>>), JNum(2)>>
                  ELSE <<JStr(<<1, 0>>)>>]),
      Snapshot([key \in {"A", "B", "C", "D"} |->
                  CASE key = "A" -> <<JStr(<<9>>), JStr(<<2>>), JStr(<<1, 1>>)>>
                    [] key = "B" -> <<JStr(<<9>>)>>
                    [] key = "C" -> <<>>
                    [] key = "D" -> <<JStr(<<2>>), JNum(10), JNum(11)>>]) }

\* ------------------------------------------------------------------ state

VARIABLES
    targets,     \* config["targets"] of targets.json
    creds,       \* BOT_TOKEN and CHAT_ID are both set
    file,        \* state.json
    pc,          \* where main is
    i,           \* number of targets main has taken from the list
    state,       \* main's state: target name -> set of seen ids
    errors,      \* main's errors
    exit_code,   \* the exit status of the process, -1 while it runs
    seen,        \* run_target's seen
    aliased,     \* seen is the very set state[name] holds
    items,       \* run_target's items
    new_items,   \* run_target's new_items
    k,           \* the position of run_target's send loop in new_items
    parses,      \* history: how each extraction of the current target ended
    digests,     \* summaries main has sent
    attempts,    \* history: indexes of the targets run_target was called for
    saves,       \* history: calls of save_state
    prior,       \* history: the state load_state returned
    seenAt,      \* history: target name -> seen as run_target first read it
    batch,       \* history: target name -> new_items as computed
    tried,       \* history: target name -> ids telegram_send was called for
    okIds,       \* history: target name -> ids whose send succeeded
    returned,    \* history: names of the targets run_target returned from
    got,         \* history: target name -> the items run_target went on with
    run,         \* the number of this run of the program
    prev,        \* history: got and tried = okIds of the run before
    pin,         \* extraction alone: the url, the cap and the page
    pout         \* extraction alone: the result

vars ==
    << targets, creds, file, pc, i, state, errors, exit_code, seen, aliased,
       items, new_items, k, parses, digests, attempts, saves, prior, seenAt,
       got, batch, tried, okIds, returned, run, prev, pin, pout >>

hist == << attempts, saves, prior, seenAt, got, batch, tried, okIds, returned >>

runs == << run, prev >>

NoParse == [url |-> "", latest_n |-> 0, soup |-> <<>>]

NotRun == [done |-> FALSE, items |-> <<>>]

NoRun == [n \in Names |-> [items |-> <<>>, clean |-> FALSE]]

target == targets[i]

name == target.name

\* the state every run starts in, given its config, credentials and file
Begin(cfg, cr, f) ==
    /\ targets = cfg
    /\ creds = cr
    /\ file = f
    /\ pc = "start"
    /\ i = 0
    /\ state = <<>>
    /\ errors = <<>>
    /\ exit_code = -1
    /\ seen = {}
    /\ aliased = FALSE
    /\ items = <<>>
    /\ new_items = <<>>
    /\ k = 0
    /\ parses = <<>>
    /\ digests = 0
    /\ attempts = <<>>
    /\ saves = 0
    /\ prior = <<>>
    /\ seenAt = [n \in Names |-> {}]
    /\ got = [n \in Names |-> <<>>]
    /\ batch = [n \in Names |-> <<>>]
    /\ tried = [n \in Names |-> <<>>]
    /\ okIds = [n \in Names |-> {}]
    /\ returned = {}

Init ==
    /\ \E cfg \in Configs, cr \in BOOLEAN, f \in Files : Begin(cfg, cr, f)
    /\ run = 1
    /\ prev = NoRun
    /\ pin = NoParse
    /\ pout = NotRun

\* ------------------------------------------------------------------- main

\* main: no targets is a RuntimeError nothing catches
ConfigError ==
    /\ pc = "start"
    /\ targets = <<>>
    /\ pc' = "exited"
    /\ exit_code' = 1
    /\ UNCHANGED << targets, creds, file, i, state, errors, seen, aliased, items,
                    new_items, k, parses, digests, hist, runs, pin, pout >>

\* main: state = load_state(); errors = []
Load ==
    /\ pc = "start"
    /\ targets # <<>>
    /\ state' = load_state(file)
    /\ prior' = load_state(file)
    /\ errors' = <<>>
    /\ pc' = "loop"
    /\ UNCHANGED << targets, creds, file, i, exit_code, seen, aliased, items,
                    new_items, k, parses, digests, attempts, saves, seenAt,
                    got, batch, tried, okIds, returned, runs, pin, pout >>

\* main: the loop takes the next target and calls run_target
Call ==
    /\ pc = "loop"
    /\ i < Len(targets)
    /\ i' = i + 1
    /\ attempts' = Append(attempts, i + 1)
    /\ pc' = "run_target"
    /\ seen' = {}
    /\ aliased' = FALSE
    /\ items' = <<>>
    /\ new_items' = <<>>
    /\ k' = 0
    /\ parses' = <<>>
    /\ UNCHANGED << targets, creds, file, state, errors, exit_code, digests,
                    saves, prior, seenAt, got, batch, tried, okIds, returned,
                    runs, pin, pout >>

\* mutant of Caught: the exception is not caught and ends main
Caught_Propagates(type, msg) ==
    /\ errors' = errors
    /\ pc' = "exited"

\* main: except Exception as e: errors.append(err_msg), and the loop goes on
Caught(type, msg) ==
    /\ errors' = Append(errors, [name |-> name, type |-> type, msg |-> msg])
    /\ pc' = "loop"

\* run_target: except Timeout / except HTTPError re-raise with the target's
\* url as the message, whatever raised them; other exceptions pass as raised
Relabel(type, msg) == IF type \in {"Timeout", "HTTPError"} THEN "url" ELSE msg

\* ------------------------------------------------------------- run_target

\* run_target: a type other than html_list_number_id is a ValueError
Unsupported ==
    /\ pc = "run_target"
    /\ target.type # Supported
    /\ Caught("ValueError", "unsupported")
    /\ UNCHANGED << targets, creds, file, i, state, exit_code, seen, aliased,
                    items, new_items, k, parses, digests, hist, runs, pin, pout >>

\* run_target: seen = state.get(name, set())
Enter ==
    /\ pc = "run_target"
    /\ target.type = Supported
    /\ seen' = Get(state, name)
    /\ aliased' = (name \in DOMAIN state)
    /\ seenAt' = [seenAt EXCEPT ![name] = Get(state, name)]
    /\ pc' = "parse"
    /\ UNCHANGED << targets, creds, file, i, state, errors, exit_code, items,
                    new_items, k, parses, digests, attempts, saves, prior,
                    got, batch, tried, okIds, returned, runs, pin, pout >>

\* fetch_html raises once its own retries are used up, in the first
\* extraction or in the diagnostic one
FetchFails ==
    /\ pc \in {"parse", "retry"}
    /\ \E type \in {"Timeout", "HTTPError", "ConnectionError"} :
           Caught(type, Relabel(type, "fetch"))
    /\ parses' = Append(parses, "error")
    /\ UNCHANGED << targets, creds, file, i, state, exit_code, seen, aliased,
                    items, new_items, k, digests, hist, runs, pin, pout >>

\* run_target: items = parse_html_list_number_id(url, latest_n, debug=False)
Parse ==
    /\ pc = "parse"
    /\ \E its \in Extractions[target.url, target.latest_n] : items' = its
    /\ parses' = Append(parses, IF items' = <<>> THEN "empty" ELSE "items")
    /\ got' = [got EXCEPT ![name] = items']
    /\ pc' = IF items' = <<>> THEN "retry" ELSE "reconcile"
    /\ UNCHANGED << targets, creds, file, i, state, errors, exit_code, seen,
                    aliased, new_items, k, digests, attempts, saves, prior,
                    seenAt, batch, tried, okIds, returned, runs, pin, pout >>

\* mutant of Retry: a second empty extraction returns as "No new items"
Retry_Silent ==
    /\ pc = "retry"
    /\ \E its \in Extractions[target.url, target.latest_n] : items' = its
    /\ parses' = Append(parses, IF items' = <<>> THEN "empty" ELSE "items")
    /\ got' = [got EXCEPT ![name] = items']
    /\ pc' = IF items' = <<>> THEN "loop" ELSE "reconcile"
    /\ errors' = errors
    /\ UNCHANGED << targets, creds, file, i, state, exit_code, seen, aliased,
                    new_items, k, digests, attempts, saves, prior, seenAt,
                    batch, tried, okIds, returned, runs, pin, pout >>

\* run_target: if not items: the extraction again with debug=True, and a
\* RuntimeError if it finds nothing either
Retry ==
    /\ pc = "retry"
    /\ \E its \in Extractions[target.url, target.latest_n] : items' = its
    /\ parses' = Append(parses, IF items' = <<>> THEN "empty" ELSE "items")
    /\ got' = [got EXCEPT ![name] = items']
    /\ IF items' = <<>>
       THEN Caught("RuntimeError", "parse")
       ELSE pc' = "reconcile" /\ errors' = errors
    /\ UNCHANGED << targets, creds, file, i, state, exit_code, seen, aliased,
                    new_items, k, digests, attempts, saves, prior, seenAt,
                    batch, tried, okIds, returned, runs, pin, pout >>

\* run_target: new_items, sorted oldest first; none is "No new items", return
Reconcile ==
    /\ pc = "reconcile"
    /\ new_items' = SortAsc(NewItems(items, seen))
    /\ batch' = [batch EXCEPT ![name] = new_items']
    /\ k' = 1
    /\ IF new_items' = <<>>
       THEN pc' = "loop" /\ returned' = returned \cup {name}
       ELSE pc' = "send" /\ returned' = returned
    /\ UNCHANGED << targets, creds, file, i, state, errors, exit_code, seen,
                    aliased, items, parses, digests, attempts, saves, prior,
                    seenAt, got, tried, okIds, runs, pin, pout >>

\* run_target: telegram_send(msg) returns; seen.add(it.item_id), which is
\* an update of state[name] too when seen is that set
SendOK ==
    /\ pc = "send"
    /\ k <= Len(new_items)
    /\ creds
    /\ seen' = seen \cup {new_items[k].item_id}
    /\ state' = IF aliased THEN Put(state, name, seen') ELSE state
    /\ tried' = [tried EXCEPT ![name] = Append(@, new_items[k].item_id)]
    /\ okIds' = [okIds EXCEPT ![name] = @ \cup {new_items[k].item_id}]
    /\ k' = k + 1
    /\ UNCHANGED << targets, creds, file, pc, i, errors, exit_code, aliased,
                    items, new_items, parses, digests, attempts, saves, prior,
                    seenAt, got, batch, returned, runs, pin, pout >>

\* telegram_send raises: RuntimeError without credentials, else what
\* requests.post or raise_for_status raises; it leaves the loop and run_target
SendFails ==
    /\ pc = "send"
    /\ k <= Len(new_items)
    /\ \E type \in IF creds THEN {"Timeout", "HTTPError", "ConnectionError"}
                   ELSE {"RuntimeError"} :
           Caught(type, Relabel(type, IF creds THEN "send" ELSE "credentials"))
    /\ tried' = [tried EXCEPT ![name] = Append(@, new_items[k].item_id)]
    /\ UNCHANGED << targets, creds, file, i, state, exit_code, seen, aliased,
                    items, new_items, k, parses, digests, attempts, saves,
                    prior, seenAt, got, batch, okIds, returned, runs, pin, pout >>

\* run_target: the loop is over; state[name] = seen
Return ==
    /\ pc = "send"
    /\ k > Len(new_items)
    /\ state' = Put(state, name, seen)
    /\ returned' = returned \cup {name}
    /\ pc' = "loop"
    /\ UNCHANGED << targets, creds, file, i, errors, exit_code, seen, aliased,
                    items, new_items, k, parses, digests, attempts, saves,
                    prior, seenAt, got, batch, tried, okIds, runs, pin, pout >>

\* ------------------------------------------------------------ end of main

\* main: save_state(state), after the loop
Save ==
    /\ pc = "loop"
    /\ i = Len(targets)
    /\ file' = save_state(state)
    /\ saves' = saves + 1
    /\ pc' = "saved"
    /\ UNCHANGED << targets, creds, i, state, errors, exit_code, seen, aliased,
                    items, new_items, k, parses, digests, attempts, prior,
                    seenAt, got, batch, tried, okIds, returned, runs, pin, pout >>

\* main: with errors and credentials, one summary; its failure is caught.
\* main returns, and the process exits with status 0
Summary ==
    /\ pc = "saved"
    /\ errors # <<>> /\ creds
    /\ \E sent \in BOOLEAN : digests' = IF sent THEN digests + 1 ELSE digests
    /\ pc' = "exited"
    /\ exit_code' = 0
    /\ UNCHANGED << targets, creds, file, i, state, errors, seen, aliased, items,
                    new_items, k, parses, hist, runs, pin, pout >>

\* main: nothing to summarise, or nobody to send it to
Exit ==
    /\ pc = "saved"
    /\ ~(errors # <<>> /\ creds)
    /\ pc' = "exited"
    /\ exit_code' = 0
    /\ UNCHANGED << targets, creds, file, i, state, errors, seen, aliased, items,
                    new_items, k, parses, digests, hist, runs, pin, pout >>

Next ==
    \/ ConfigError
    \/ Load
    \/ Call
    \/ Unsupported
    \/ Enter
    \/ FetchFails
    \/ Parse
    \/ Retry
    \/ Reconcile
    \/ SendOK
    \/ SendFails
    \/ Return
    \/ Save
    \/ Summary
    \/ Exit

Spec == Init /\ [][Next]_vars

\* --------------------------------------------------------------- two runs

\* runs of the program the scheduler starts one after the other
MaxRuns == 2

\* every send of the run that has ended succeeded
AllSent == \A n \in Names : Len(tried[n]) = Cardinality(okIds[n])

\* the scheduler starts the program again: a new process, the same
\* targets.json, credentials and state.json
Rerun ==
    /\ pc = "exited"
    /\ run < MaxRuns
    /\ run' = run + 1
    /\ prev' = [n \in Names |->
                   [items |-> got[n], clean |-> n \in returned /\ AllSent]]
    /\ pc' = "start"
    /\ i' = 0
    /\ state' = <<>>
    /\ errors' = <<>>
    /\ exit_code' = -1
    /\ seen' = {}
    /\ aliased' = FALSE
    /\ items' = <<>>
    /\ new_items' = <<>>
    /\ k' = 0
    /\ parses' = <<>>
    /\ digests' = 0
    /\ attempts' = <<>>
    /\ saves' = 0
    /\ prior' = <<>>
    /\ seenAt' = [n \in Names |-> {}]
    /\ got' = [n \in Names |-> <<>>]
    /\ batch' = [n \in Names |-> <<>>]
    /\ tried' = [n \in Names |-> <<>>]
    /\ okIds' = [n \in Names |-> {}]
    /\ returned' = {}
    /\ UNCHANGED << targets, creds, file, pin, pout >>

InitRerun ==
    /\ \E cfg \in {<<>>, <<tA>>, <<tU, tD>>}, cr \in BOOLEAN, f \in Files :
           Begin(cfg, cr, f)
    /\ run = 1
    /\ prev = NoRun
    /\ pin = NoParse
    /\ pout = NotRun

NextRerun == Next \/ Rerun

SpecRerun == InitRerun /\ [][NextRerun]_vars

\* ------------------------------------------------------- extraction alone

\* one extraction of one page: main's variables stay as a run begins
InitExtract ==
    /\ Begin(<<>>, FALSE, Absent)
    /\ \E url \in Urls, latest_n \in 1..MaxLatestN :
           \E soup \in Pages(url) :
               pin = [url |-> url, latest_n |-> latest_n, soup |-> soup]
    /\ run = 1
    /\ prev = NoRun
    /\ pout = NotRun

Extract ==
    /\ ~pout.done
    /\ pout' = [done |-> TRUE,
                items |-> parse_html_list_number_id(pin.url, pin.latest_n, pin.soup)]
    /\ UNCHANGED << targets, creds, file, pc, i, state, errors, exit_code, seen,
                    aliased, items, new_items, k, parses, digests, hist, runs, pin >>

NextExtract == Extract

SpecExtract == InitExtract /\ [][NextExtract]_vars

\* ----------------------------------------------------------------- claims

\* the link a site parser reads as a notice
SiteNotice(url, a) ==
    /\ a.href.kind = "link"
    /\ a.href.ep = Endpoint(url)
    /\ a.href.key = Param(url)
    /\ DigitPrefix(a.href.val) # <<>>
    /\ Clean(a.text, IF url = "nid.or.kr" THEN {"[open]", "[closed]"}
                     ELSE IF url = "hs4u.or.kr"
                          THEN {"[new]", "[image]", "[download]"}
                          ELSE {}) # <<>>

\* [id, title] of every notice of a page of a site, in document order
SiteNotices(url, soup) ==
    LET as == SelectSeq(Flatten(soup), LAMBDA a : SiteNotice(url, a))
    IN [j \in 1..Len(as) |->
           << DigitPrefix(as[j].href.val),
              SelectSeq(as[j].text, LAMBDA w : w \notin
                  {"[open]", "[closed]", "[new]", "[image]", "[download]"}) >>]

\* a numbered row
Numbered(tr) == tr.tds # <<>> /\ IsDigit(tr.tds[1])

\* pass 1: the numbered rows whose first link has a text
Pass1Notices(soup) ==
    LET rows == SelectSeq(soup, LAMBDA tr :
                    Numbered(tr) /\ tr.anchors # <<>> /\ tr.anchors[1].text # <<>>)
    IN [j \in 1..Len(rows) |-> << rows[j].tds[1], rows[j].anchors[1].text >>]

RECURSIVE RowLinks(_)
\* every link of the page with the number of its row, in document order
RowLinks(soup) ==
    IF soup = <<>> THEN <<>>
    ELSE [j \in 1..Len(Head(soup).anchors) |->
              [tr |-> Head(soup), a |-> Head(soup).anchors[j]]]
         \o RowLinks(Tail(soup))

\* pass 2: the links with a text inside a numbered row
Pass2Notices(soup) ==
    LET ls == SelectSeq(RowLinks(soup), LAMBDA l : Numbered(l.tr) /\ l.a.text # <<>>)
    IN [j \in 1..Len(ls) |-> << ls[j].tr.tds[1], ls[j].a.text >>]

\* the notices the strategy of a url finds on a page, in document order
Notices(url, soup) ==
    IF url # Generic THEN SiteNotices(url, soup)
    ELSE IF Pass1Notices(soup) # <<>> THEN Pass1Notices(soup)
    ELSE Pass2Notices(soup)

\* C10: every extraction result, of the three site parsers and of both passes
\* of the generic extractor, has at most latest_n items, no id twice, ids in
\* descending numeric order, only notices of the page and the numerically
\* largest of them, each with the title of the last notice of that id on
\* the page.
C10_Extraction ==
    pout.done =>
        LET ns == Notices(pin.url, pin.soup)
            out == pout.items
            ids == {ns[j][1] : j \in 1..Len(ns)}
            kept == {out[j].item_id : j \in 1..Len(out)}
        IN /\ Len(out) <= pin.latest_n
           /\ \A a, b \in 1..Len(out) : a # b => out[a].item_id # out[b].item_id
           /\ \A a, b \in 1..Len(out) :
                  a < b => int(out[a].item_id) >= int(out[b].item_id)
           /\ kept \subseteq ids
           /\ Cardinality(kept) = IF Cardinality(ids) < pin.latest_n
                                  THEN Cardinality(ids) ELSE pin.latest_n
           /\ \A x \in ids \ kept : \A y \in kept : int(y) >= int(x)
           /\ \A j \in 1..Len(out) :
                  LET last == CHOOSE m \in 1..Len(ns) :
                                  /\ ns[m][1] = out[j].item_id
                                  /\ \A q \in m + 1..Len(ns) : ns[q][1] # ns[m][1]
                  IN out[j].title = ns[last][2]

\* C10 witness: a page that names an id twice with two titles and has more
\* ids than the cap, extracted
C10_Witness ==
    /\ pout.done
    /\ Len(pout.items) = pin.latest_n
    /\ LET ns == Notices(pin.url, pin.soup)
           out == pout.items
       IN /\ Cardinality({ns[j][1] : j \in 1..Len(ns)}) > pin.latest_n
          /\ \E a, b \in 1..Len(ns) :
                 /\ a < b
                 /\ ns[a][1] = ns[b][1]
                 /\ ns[a][2] # ns[b][2]
                 /\ \E j \in 1..Len(out) : out[j].item_id = ns[a][1]

\* the ids of a sequence of items
Ids(its) == {its[j].item_id : j \in 1..Len(its)}

\* the ids state.json holds for a target, as the next load_state reads them
Stored(n) == Get(load_state(file), n)

\* no id of the items starts with 0: each is the decimal form of its number
Plain(its) == \A j \in 1..Len(its) : its[j].item_id[1] # 0

\* run_target has ended for target i, after an extraction that found items
Reconciled == pc = "loop" /\ i > 0 /\ items # <<>>

\* the run is over and has saved
Ended == pc = "exited" /\ saves = 1

\* C1: main calls run_target for every configured target, in order, whatever
\* happens to each, and then calls save_state exactly once: never before the
\* last target has been attempted, and always before the process ends; no
\* step of a run with targets blocks or ends it early.
C1_AllTargetsThenOneSave ==
    /\ attempts = [j \in 1..i |-> j]
    /\ saves <= 1
    /\ saves = 1 => /\ i = Len(targets)
                    /\ pc \in {"saved", "exited"}
    /\ targets # <<>> /\ pc \in {"saved", "exited"} =>
           /\ saves = 1
           /\ attempts = [j \in 1..Len(targets) |-> j]
    /\ targets # <<>> =>
           CASE pc = "start" -> ENABLED Load
             [] pc = "loop" -> ENABLED (Call \/ Save)
             [] pc = "run_target" -> ENABLED (Unsupported \/ Enter)
             [] pc \in {"parse", "retry"} -> ENABLED FetchFails
             [] pc = "reconcile" -> ENABLED Reconcile
             [] pc = "send" -> ENABLED (SendOK \/ SendFails \/ Return)
             [] pc = "saved" -> ENABLED (Summary \/ Exit)
             [] OTHER -> pc = "exited" /\ exit_code = 0

\* C1 witness: a run over two targets that both failed has ended and saved
C1_Witness ==
    /\ pc = "exited"
    /\ Len(targets) = 2
    /\ Len(errors) = 2
    /\ errors[1].type # errors[2].type
    /\ saves = 1

\* C2: for a non-empty extraction result, the ids run_target calls
\* telegram_send for are exactly the ids of the result that seen did not hold,
\* in strictly ascending numeric order (stated for a run that has its
\* credentials, where a send fails by itself, and for ids that are plain
\* decimal numbers).
C2_NotifiesExactlyTheNewAscending ==
    Reconciled /\ creds /\ Plain(items) =>
        LET new == {id \in Ids(items) : id \notin seenAt[name]}
            t == tried[name]
        IN /\ Range(t) = new
           /\ Len(t) = Cardinality(new)
           /\ \A a, b \in 1..Len(t) : a < b => int(t[a]) < int(t[b])

\* C3: after save_state every stored list has at most the cap's number of
\* ids, and of a SeenSet above the cap the stored ids are the numerically
\* largest.
C3_StoredAreNumericallyLargest ==
    saves = 1 =>
        \A n \in DOMAIN state :
            /\ Len(file.data[n]) <= SeenCap
            /\ Stored(n) \subseteq state[n]
            /\ Cardinality(state[n]) > SeenCap =>
                   /\ Cardinality(Stored(n)) = SeenCap
                   /\ \A x \in state[n] \ Stored(n) :
                          \A y \in Stored(n) : int(y) >= int(x)

\* C4: a failed send does not crash the run, and every new item of the
\* target's batch, the ones after the failed one too, is attempted (stated
\* for a run that has its credentials, where a send fails by itself).
C4_FailedSendDoesNotStopTheBatch ==
    /\ targets # <<>> => exit_code # 1
    /\ Reconciled /\ creds /\ Plain(items) =>
           Ids(batch[name]) \subseteq Range(tried[name])

\* C5: when a send of a target's batch failed, the snapshot saved at the end
\* of the run holds for that target every id whose send succeeded and no id
\* of the batch whose send failed or was not attempted.
C5_SnapshotAfterFailedSend ==
    Ended =>
        \A n \in Names :
            Len(tried[n]) > Cardinality(okIds[n]) /\ Plain(batch[n]) =>
                /\ okIds[n] \subseteq Stored(n)
                /\ (Ids(batch[n]) \ okIds[n]) \cap Stored(n) = {}

\* a target run_target returned from, beside one it raised for
OtherFailed(s, f) ==
    /\ s \in 1..Len(targets) /\ f \in 1..Len(targets)
    /\ targets[s].name \in returned
    /\ targets[f].name \notin returned

\* C6 as stated: when one target fails, the snapshot holds for the other
\* target exactly its prior ids and the ids it notified in this run, and the
\* error is recorded for the failed target only.
C6_SnapshotHoldsPriorAndNotified ==
    Ended =>
        \A s, f \in 1..Len(targets) :
            OtherFailed(s, f) =>
                LET n == targets[s].name
                IN /\ Stored(n) = Get(prior, n) \cup okIds[n]
                   /\ \A e \in Range(errors) : e.name # n
                   /\ \E e \in Range(errors) : e.name = targets[f].name

\* C6 as amended: when one target fails, the other target's SeenSet in the
\* shared mapping is exactly its prior ids and the ids it notified in this
\* run, the snapshot holds them all when they are no more than the cap and
\* otherwise a cap's number of them, and the error is recorded for the
\* failed target only.
C6_OtherTargetUntouched ==
    Ended =>
        \A s, f \in 1..Len(targets) :
            OtherFailed(s, f) =>
                LET n == targets[s].name
                    all == Get(prior, n) \cup okIds[n]
                IN /\ Get(state, n) = all
                   /\ Stored(n) \subseteq all
                   /\ Cardinality(Stored(n)) =
                          IF Cardinality(all) <= SeenCap THEN Cardinality(all)
                          ELSE SeenCap
                   /\ \A e \in Range(errors) : e.name # n
                   /\ \E e \in Range(errors) : e.name = targets[f].name

\* C6 witness: the first target failed in a send after one that succeeded,
\* and the second, which had prior ids, notified a new one and returned
C6_Witness ==
    /\ Ended
    /\ OtherFailed(2, 1)
    /\ okIds[targets[1].name] # {}
    /\ Len(tried[targets[1].name]) > Cardinality(okIds[targets[1].name])
    /\ Get(prior, targets[2].name) # {}
    /\ okIds[targets[2].name] # {}

\* C7: an empty extraction is re-attempted exactly once; when the
\* re-attempt is empty too, run_target raises an error that is no transport
\* error, does not return as for "No new items", sends nothing and leaves
\* the target's SeenSet as it was; when the re-attempt finds items,
\* reconciliation goes on with them.
C7_EmptyExtractionEscalates ==
    /\ Len(parses) <= 2
    /\ Len(parses) = 2 => parses[1] = "empty"
    /\ pc = "retry" <=> parses = <<"empty">>
    /\ parses = <<"empty", "empty">> =>
           /\ pc \in {"loop", "saved", "exited"}
           /\ errors # <<>>
           /\ errors[Len(errors)] =
                  [name |-> name, type |-> "RuntimeError", msg |-> "parse"]
           /\ errors[Len(errors)].type \notin {"Timeout", "HTTPError", "ConnectionError"}
           /\ name \notin returned
           /\ tried[name] = <<>>
           /\ Get(state, name) = seenAt[name]
           /\ (name \in DOMAIN state) = (name \in DOMAIN prior)
    /\ parses = <<"empty", "items">> =>
           /\ items # <<>>
           /\ got[name] = items
           /\ pc \in {"reconcile", "send", "loop", "saved", "exited"}
           /\ pc # "reconcile" => Ids(batch[name]) = Ids(items) \ seenAt[name]
           /\ errors # <<>> /\ errors[Len(errors)].name = name =>
                  errors[Len(errors)].msg # "parse"

\* C7 witness: both extractions of a target with a SeenSet were empty
C7_Witness ==
    /\ parses = <<"empty", "empty">>
    /\ seenAt[name] # {}
    /\ pc = "loop"

\* C8: the exit status of a run that attempted every target and saved is
\* non-zero when a target failed and zero when none did.
C8_ExitStatusReflectsFailure ==
    Ended /\ targets # <<>> =>
        /\ attempts = [j \in 1..Len(targets) |-> j]
        /\ errors # <<>> => exit_code # 0
        /\ errors = <<>> => exit_code = 0

\* C9: after a run in which every send succeeded, a second run that extracts
\* the same items for a target finds none of them new and sends nothing.
C9_SecondRunFindsNothingNew ==
    /\ run = 2
    /\ pc \in {"send", "loop"}
    /\ i > 0
    /\ items # <<>>
    /\ prev[name].clean
    /\ prev[name].items = items
    /\ Plain(items)
    => /\ batch[name] = <<>>
       /\ tried[name] = <<>>

====
